---- MODULE Spec2Model ----
(***************************************************************************)
(* Voyage economics recalculation (run_partial_voyage), the two threshold  *)
(* sweeps built on it (find_delay_threshold, find_bunker_price_threshold)  *)
(* and the recommendation rule of the Streamlit page.                      *)
(*                                                                         *)
(* Python floats are modelled as exact rationals <<n, d>> in lowest terms  *)
(* with d > 0, so that the speed factor b/s, the cubic fuel factor (s/b)^3 *)
(* and the percentage price p * (1 + pct/100) are computed as the code     *)
(* computes them, without rounding.                                        *)
(*                                                                         *)
(* The last part of the module evaluates run_partial_voyage and            *)
(* find_delay_threshold a second time, in IEEE 754 binary64 arithmetic     *)
(* with its rounding (Spec64), for the selection among candidates whose    *)
(* exact profits are equal.                                                *)
(***************************************************************************)
EXTENDS Integers, Sequences, FiniteSets, TLC

VARIABLES
    pc,          \* position of the running call: idle, sweep, done, error
    call,        \* arguments of the running call
    base_profit, \* local base_profit of a threshold search
    v,           \* loop variable of the sweep (delay_days / pct_increase); sweep values are integers
    profits,     \* local list profits of the latest sweep iteration
    visited,     \* sweep values at which the pool has been recalculated, in order
    result,      \* what the call returned, or the exception it raised
    session      \* st.session_state of the Streamlit page

vars == <<pc, call, base_profit, v, profits, visited, result, session>>

----------------------------------------------------------------------------
(* Exact rational arithmetic standing for Python's float arithmetic.       *)

RECURSIVE GCD(_, _)
GCD(a, b) == IF b = 0 THEN a ELSE GCD(b, a % b)

Abs(x) == IF x < 0 THEN -x ELSE x

Norm(n, d) ==
    LET s == IF d < 0 THEN -1 ELSE 1
        g == GCD(Abs(n), Abs(d))
    IN  <<(s * n) \div g, (s * d) \div g>>

F(x) == <<x, 1>>

RAdd(a, b) == Norm(a[1] * b[2] + b[1] * a[2], a[2] * b[2])
RNeg(a) == <<-a[1], a[2]>>
RSub(a, b) == RAdd(a, RNeg(b))
RMul(a, b) ==
    LET x == Norm(a[1], b[2])
        y == Norm(b[1], a[2])
    IN  <<x[1] * y[1], x[2] * y[2]>>
RDiv(a, b) == RMul(a, Norm(b[2], b[1]))
RCube(a) == RMul(a, RMul(a, a))
RAbs(a) == <<Abs(a[1]), a[2]>>

\* a < b, comparing integer parts first so that no product grows large
RLt(a, b) ==
    LET fa == a[1] \div a[2]
        fb == b[1] \div b[2]
    IN  IF fa # fb THEN fa < fb
        ELSE (a[1] % a[2]) * b[2] < (b[1] % b[2]) * a[2]
RLe(a, b) == ~RLt(b, a)
RMax(a, b) == IF RLt(a, b) THEN b ELSE a

Zero == F(0)
One == F(1)

----------------------------------------------------------------------------
(* dict.get(key, default)                                                  *)
Get(d, k, dflt) == IF k \in DOMAIN d THEN d[k] ELSE dflt

\* the defaults of daily_hire and opex_per_day, lines 10 and 11
DailyHire == 12000
OpexPerDay == 3000

\* an exception leaving the function

ZeroDivisionError == [exception |-> "ZeroDivisionError"]
ValueError == [exception |-> "ValueError"]
Raised(r) == "exception" \in DOMAIN r

\* base_speed / max(speed_knots, 1.0), line 20
SpeedFactor(base_speed, speed_knots) == RDiv(base_speed, RMax(speed_knots, One))

\* (speed_knots / base_speed) ** 3, line 24; ZeroDivisionError when base_speed is 0
FuelFactor(speed_knots, base_speed) == RCube(RDiv(speed_knots, base_speed))

\* variant of BunkerCost: both fuels priced at mgo_price
BunkerCostOnePrice(vlsfo_mt, vlsfo_price, mgo_mt, mgo_price) ==
    RAdd(RMul(vlsfo_mt, mgo_price), RMul(mgo_mt, mgo_price))
\* vlsfo_mt * vlsfo_price + mgo_mt * mgo_price, line 28
BunkerCost(vlsfo_mt, vlsfo_price, mgo_mt, mgo_price) ==
    RAdd(RMul(vlsfo_mt, vlsfo_price), RMul(mgo_mt, mgo_price))

\* variant of TimeCost: opex_per_day left out
TimeCostHireOnly(total_days) == RMul(total_days, F(DailyHire))
\* total_days * (daily_hire + opex_per_day), line 29
TimeCost(total_days) == RMul(total_days, F(DailyHire + OpexPerDay))

\* variant of Tce: only total_days = 0 is guarded
TceUnguarded(profit, total_days) ==
    IF total_days = Zero THEN Zero ELSE RDiv(profit, total_days)
\* profit / total_days if total_days > 0 else 0, line 37
Tce(profit, total_days) ==
    IF RLt(Zero, total_days) THEN RDiv(profit, total_days) ELSE Zero

\* run_partial_voyage with the default daily_hire and opex_per_day
run_partial_voyage(base_row, vlsfo_price, mgo_price, speed_knots, extra_days) ==
    LET base_days == F(Get(base_row, "days", 1))
        base_prof == F(Get(base_row, "profit", 0))
        base_vlsfo_mt == F(Get(base_row, "total_vlsfo_mt", 0))
        base_mgo_mt == F(Get(base_row, "total_mgo_mt", 0))
        base_speed == F(Get(base_row, "speed_knots", 12))
        speed_factor == SpeedFactor(base_speed, speed_knots)
        sailing_days == RMul(base_days, speed_factor)
        total_days == RAdd(sailing_days, extra_days)
        fuel_factor == FuelFactor(speed_knots, base_speed)
        vlsfo_mt == RMul(base_vlsfo_mt, fuel_factor)
        mgo_mt == RMul(base_mgo_mt, fuel_factor)
        bunker_cost == BunkerCost(vlsfo_mt, vlsfo_price, mgo_mt, mgo_price)
        time_cost == TimeCost(total_days)
        row_vlsfo_price == IF "vlsfo_price" \in DOMAIN base_row
                           THEN F(base_row["vlsfo_price"]) ELSE vlsfo_price
        row_mgo_price == IF "mgo_price" \in DOMAIN base_row
                         THEN F(base_row["mgo_price"]) ELSE mgo_price
        base_bunker_cost == RAdd(RMul(base_vlsfo_mt, row_vlsfo_price),
                                 RMul(base_mgo_mt, row_mgo_price))
        base_time_cost == RMul(base_days, F(DailyHire + OpexPerDay))
        revenue == RAdd(RAdd(base_prof, base_bunker_cost), base_time_cost)
        profit == RSub(RSub(revenue, bunker_cost), time_cost)
        tce == Tce(profit, total_days)
    IN  IF base_speed = Zero
        THEN ZeroDivisionError
        ELSE [profit |-> profit, adj_profit |-> profit, tce |-> tce, adj_tce |-> tce,
              days |-> total_days, fuel |-> [vlsfo_mt |-> vlsfo_mt, mgo_mt |-> mgo_mt]]

----------------------------------------------------------------------------
(* Baseline records (rows of the precomputed table).                       *)

RecA == [vessel |-> "A", cargo |-> "X", days |-> 10, profit |-> 100000,
         total_vlsfo_mt |-> 500, total_mgo_mt |-> 50,
         vlsfo_price |-> 500, mgo_price |-> 650, speed_knots |-> 12]
RecB == [vessel |-> "B", cargo |-> "Y", days |-> 10, profit |-> 90000,
         total_vlsfo_mt |-> 100, total_mgo_mt |-> 10,
         vlsfo_price |-> 500, mgo_price |-> 650, speed_knots |-> 12]
\* a row without the price columns
RecC == [vessel |-> "A", cargo |-> "Y", days |-> 8, profit |-> 95000,
         total_vlsfo_mt |-> 200, total_mgo_mt |-> 20, speed_knots |-> 12]
\* a row whose baseline speed is 0
RecD == [vessel |-> "B", cargo |-> "X", days |-> 10, profit |-> 50000,
         total_vlsfo_mt |-> 100, total_mgo_mt |-> 10,
         vlsfo_price |-> 500, mgo_price |-> 650, speed_knots |-> 0]
\* a slow, loss-making row
RecE == [vessel |-> "C", cargo |-> "X", days |-> 20, profit |-> -1000,
         total_vlsfo_mt |-> 40, total_mgo_mt |-> 4,
         vlsfo_price |-> 500, mgo_price |-> 650, speed_knots |-> 6]
\* a row of zero duration with only the key and profit columns besides
RecF == [vessel |-> "C", cargo |-> "Y", days |-> 0, profit |-> 1000]

Records == {RecA, RecB, RecC, RecD, RecE, RecF}


\* rows of one DataFrame share its columns
SameColumns(df) == \A i, j \in 1..Len(df) : DOMAIN df[i] = DOMAIN df[j]

MaxPool == 2
MaxSpan == 2
MaxStep == 2

RECURSIVE SeqsUpTo(_, _)
SeqsUpTo(S, n) ==
    IF n = 0 THEN {<<>>}
    ELSE LET shorter == SeqsUpTo(S, n - 1)
         IN  shorter \cup {Append(q, x) : q \in {t \in shorter : Len(t) = n - 1}, x \in S}

\* rows of the threshold searches' baselines and pools
SweepRecords == {RecA, RecB, RecC, RecD}

\* candidate pools: the empty pool and every table of up to MaxPool rows
DataFrames == {df \in SeqsUpTo(SweepRecords, MaxPool) : SameColumns(df)}

\* argument values of run_partial_voyage called directly
VlsfoPrices == {400, 500, 600}
MgoPrices == {650, 700}
Speeds == {0, 6, 12}
ExtraDays == {-20, 0, 5}

\* argument values of the threshold searches
SweepVlsfoPrices == {500, 600}
SweepMgoPrices == {650}
SweepSpeeds == {6, 12}
SweepExtraDays == {0, 5}
Starts == {0, 4}

\* (start, end, step) of a sweep; end may lie below start
Sweeps == {<<s, s + d, st>> : s \in Starts, d \in -1..MaxSpan, st \in 1..MaxStep}

\* the documented scenario: baseline A, pool [A, B], 0 to 200 percent in steps of 1
ScenarioSweep == <<0, 200, 1>>
Scenario == <<RecA, <<RecA, RecB>>, 500, 650, 12, 0, ScenarioSweep>>

DelayInputs ==
    {<<b, df, pv, pm, s, sw[1], sw>> :
        b \in SweepRecords, df \in DataFrames, pv \in SweepVlsfoPrices, pm \in SweepMgoPrices,
        s \in SweepSpeeds, sw \in Sweeps}

BunkerInputs ==
    {<<b, df, pv, pm, s, e, sw>> :
        b \in SweepRecords, df \in DataFrames, pv \in SweepVlsfoPrices, pm \in SweepMgoPrices,
        s \in SweepSpeeds, e \in SweepExtraDays, sw \in Sweeps}
    \cup {Scenario}

----------------------------------------------------------------------------
(* Python values of the threshold searches.                                *)

\* Optional values: None is <<>>, a value x is <<x>>
None == <<>>
Some(x) == <<x>>
NoneTriple == <<None, None, None>>

\* the dict appended to profits, lines 61 and 81
Entry(row, res) == [vessel |-> row["vessel"], cargo |-> row["cargo"], profit |-> res["profit"]]

\* variant of TopChoice: among equal profits the last entry wins
TopChoiceLast(ps) ==
    LET i == CHOOSE k \in 1..Len(ps) :
                 /\ \A j \in 1..Len(ps) : RLe(ps[j]["profit"], ps[k]["profit"])
                 /\ \A j \in (k + 1)..Len(ps) : ps[j]["profit"] # ps[k]["profit"]
    IN  ps[i]
\* max(profits, key=lambda x: x["profit"]), line 62: the first entry that no other
\* entry exceeds
TopChoice(ps) ==
    LET i == CHOOSE k \in 1..Len(ps) :
                 /\ \A j \in 1..Len(ps) : RLe(ps[j]["profit"], ps[k]["profit"])
                 /\ \A j \in 1..(k - 1) : ps[j]["profit"] # ps[k]["profit"]
    IN  ps[i]

\* epsilon = 1e-3, lines 55 and 74
Epsilon == <<1, 1000>>

\* variant of Flipped: the keys are not compared
FlippedProfitOnly(top, current_vessel, current_cargo, bp) ==
    RLt(Epsilon, RAbs(RSub(top["profit"], bp)))
\* the return condition of lines 63 and 83
Flipped(top, current_vessel, current_cargo, bp) ==
    /\ (top["vessel"] # current_vessel \/ top["cargo"] # current_cargo)
    /\ RLt(Epsilon, RAbs(RSub(top["profit"], bp)))

\* np.arange(start, end + step, step) for step > 0 yields start, start + step, ...
\* for as long as the value is below the stop value end + step
ArangeStop(end, step) == end + step

\* variant of NewVlsfoPrice: the percentage is not applied
NewVlsfoPriceFlat(vlsfo_price, pct_increase) == F(vlsfo_price)
\* new_vlsfo_price = vlsfo_price * (1 + pct_increase / 100), line 77
NewVlsfoPrice(vlsfo_price, pct_increase) ==
    RMul(F(vlsfo_price), RAdd(One, RDiv(F(pct_increase), F(100))))

\* the arguments run_partial_voyage gets for a pool row at sweep value x
RowResult(c, row, x) ==
    IF c.fn = "find_delay_threshold"
    THEN run_partial_voyage(row, F(c.vlsfo_price), F(c.mgo_price), F(c.speed_knots), F(x))
    ELSE run_partial_voyage(row, NewVlsfoPrice(c.vlsfo_price, x), F(c.mgo_price),
                            F(c.speed_knots), F(c.extra_days))

\* the inner loop over results_df.iterrows(): one result per row, in row order
RECURSIVE RowResults(_, _, _)
RowResults(c, df, x) ==
    IF df = <<>> THEN <<>>
    ELSE <<RowResult(c, Head(df), x)>> \o RowResults(c, Tail(df), x)

\* the list profits once no row has raised
RECURSIVE Entries(_, _)
Entries(df, rs) ==
    IF df = <<>> THEN <<>>
    ELSE <<Entry(Head(df), Head(rs))>> \o Entries(Tail(df), Tail(rs))

NoCall == [fn |-> "none"]

Init ==
    /\ pc = "idle"
    /\ call = NoCall
    /\ base_profit = Zero
    /\ v = 0
    /\ profits = <<>>
    /\ visited = <<>>
    /\ result = NoneTriple
    /\ session = [k \in {} |-> 0]

\* the arguments of a threshold search as one record
Args(fn, in) ==
    [fn |-> fn, base_row |-> in[1], results_df |-> in[2], vlsfo_price |-> in[3],
     mgo_price |-> in[4], speed_knots |-> in[5], extra_days |-> in[6],
     start |-> in[7][1], end |-> in[7][2], step |-> in[7][3]]

\* lines 51-55 and 70-74: the baseline is recalculated once, before the loop; in
\* find_delay_threshold extra_days is extra_days_start
Enter(c, base_result) ==
    /\ call' = c
    /\ IF Raised(base_result)
       THEN /\ pc' = "error"
            /\ result' = base_result
            /\ UNCHANGED <<base_profit, v>>
       ELSE /\ pc' = "sweep"
            /\ base_profit' = base_result["profit"]
            /\ v' = c.start
            /\ UNCHANGED result
    /\ UNCHANGED <<profits, visited, session>>

CallDelay ==
    /\ pc = "idle"
    /\ \E in \in DelayInputs :
         Enter(Args("find_delay_threshold", in),
               run_partial_voyage(in[1], F(in[3]), F(in[4]), F(in[5]), F(in[6])))

CallBunker ==
    /\ pc = "idle"
    /\ \E in \in BunkerInputs :
         Enter(Args("find_bunker_price_threshold", in),
               run_partial_voyage(in[1], F(in[3]), F(in[4]), F(in[5]), F(in[6])))

\* lines 62-64 and 82-84, once the inner loop has filled profits with ps
Select(ps, top_choice) ==
    /\ profits' = ps
    /\ IF Flipped(top_choice, call.base_row["vessel"], call.base_row["cargo"], base_profit)
       THEN /\ pc' = "done"
            /\ result' = <<Some(v), Some(top_choice), Some(ps)>>
            /\ UNCHANGED v
       ELSE /\ pc' = "sweep"
            /\ v' = v + call.step
            /\ UNCHANGED result

\* the body of the for loop, lines 58-64 and 77-84, with the rows' results rs
LoopBody(df, rs) ==
    IF \E i \in 1..Len(rs) : Raised(rs[i])
    THEN \* a row's run_partial_voyage raises inside the inner loop
         /\ pc' = "error"
         /\ result' = ZeroDivisionError
         /\ UNCHANGED <<v, profits>>
    ELSE IF Len(df) = 0
    THEN \* max() of an empty list raises ValueError
         /\ pc' = "error"
         /\ result' = ValueError
         /\ profits' = <<>>
         /\ UNCHANGED v
    ELSE Select(Entries(df, rs), TopChoice(Entries(df, rs)))

\* one iteration of the for loop over np.arange(start, end + step, step)
SweepStep ==
    /\ pc = "sweep"
    /\ v < ArangeStop(call.end, call.step)
    /\ visited' = Append(visited, v)
    /\ LoopBody(call.results_df, RowResults(call, call.results_df, v))
    /\ UNCHANGED <<call, base_profit, session>>

\* the loop is exhausted: return None, None, None (lines 65 and 85)
SweepExhausted ==
    /\ pc = "sweep"
    /\ ~(v < ArangeStop(call.end, call.step))
    /\ pc' = "done"
    /\ result' = NoneTriple
    /\ UNCHANGED <<call, base_profit, v, profits, visited, session>>

Next == CallDelay \/ CallBunker \/ SweepStep \/ SweepExhausted

Spec == Init /\ [][Next]_vars

----------------------------------------------------------------------------
(* run_partial_voyage called directly.                                     *)

Recalculate ==
    /\ pc = "idle"
    /\ \E base_row \in Records, vlsfo_price \in VlsfoPrices, mgo_price \in MgoPrices,
          speed_knots \in Speeds, extra_days \in ExtraDays :
         /\ call' = [fn |-> "run_partial_voyage", base_row |-> base_row,
                     vlsfo_price |-> vlsfo_price, mgo_price |-> mgo_price,
                     speed_knots |-> speed_knots, extra_days |-> extra_days]
         /\ result' = run_partial_voyage(base_row, F(vlsfo_price), F(mgo_price),
                                         F(speed_knots), F(extra_days))
         /\ pc' = IF Raised(result') THEN "error" ELSE "done"
    /\ UNCHANGED <<base_profit, v, profits, visited, session>>

SpecRecalc == Init /\ [][Recalculate]_vars

Returned == pc = "done" /\ call.fn = "run_partial_voyage"

----------------------------------------------------------------------------
\* a returned call at the record's own prices and speed (>= 1), with no extra days
OwnInputs ==
    /\ Returned
    /\ "vlsfo_price" \in DOMAIN call.base_row
    /\ "mgo_price" \in DOMAIN call.base_row
    /\ call.vlsfo_price = call.base_row["vlsfo_price"]
    /\ call.mgo_price = call.base_row["mgo_price"]
    /\ call.speed_knots = Get(call.base_row, "speed_knots", 12)
    /\ call.speed_knots >= 1
    /\ call.extra_days = 0

----------------------------------------------------------------------------
\* the profit of the same call at another vlsfo_price
ProfitAt(p) ==
    run_partial_voyage(call.base_row, F(p), F(call.mgo_price), F(call.speed_knots),
                       F(call.extra_days))["profit"]

BurnsVlsfo == Returned /\ RLt(Zero, result["fuel"]["vlsfo_mt"])

(* C2 as claimed: for every record, also one without a vlsfo_price field,  *)
(* at fixed mgo_price, speed and extra days and with recalculated          *)
(* vlsfo_mt > 0, a higher vlsfo_price gives a strictly lower profit.       *)
C2_MonotonicEveryRecord ==
    BurnsVlsfo =>
        \A p1 \in VlsfoPrices : p1 < call.vlsfo_price => RLt(result["profit"], ProfitAt(p1))

(* C2 amended: for every record that carries a vlsfo_price field, at fixed *)
(* mgo_price, speed and extra days and with recalculated vlsfo_mt > 0, a   *)
(* higher vlsfo_price gives a strictly lower profit.                       *)
C2_MonotonicPricedRecord ==
    (BurnsVlsfo /\ "vlsfo_price" \in DOMAIN call.base_row) =>
        \A p1 \in VlsfoPrices : p1 < call.vlsfo_price => RLt(result["profit"], ProfitAt(p1))

C2_Witness ==
    /\ BurnsVlsfo
    /\ "vlsfo_price" \in DOMAIN call.base_row
    /\ call.speed_knots = 6
    /\ call.vlsfo_price = 600

----------------------------------------------------------------------------
\* base days * base speed / max(speed_knots, 1) + extra_days
ClaimedTotalDays ==
    RAdd(RDiv(RMul(F(Get(call.base_row, "days", 1)), F(Get(call.base_row, "speed_knots", 12))),
              RMax(F(call.speed_knots), One)),
         F(call.extra_days))

(* C3: when base days * base speed / max(speed_knots, 1) + extra_days is   *)
(* <= 0 the returned tce is 0, and otherwise it is profit / total_days.    *)
C3_TceGuard ==
    Returned =>
        /\ RLe(ClaimedTotalDays, Zero) => result["tce"] = Zero
        /\ RLt(Zero, ClaimedTotalDays) =>
               result["tce"] = RDiv(result["profit"], ClaimedTotalDays)

C3_Witness ==
    /\ Returned
    /\ RLt(ClaimedTotalDays, Zero)
    /\ result["profit"] # Zero
    /\ result["tce"] = Zero

----------------------------------------------------------------------------
(* C8: run_partial_voyage returns a numeric result for all numeric inputs, *)
(* also for a baseline speed of 0 and for total_days = 0.                  *)
C8_NeverRaises == call.fn = "run_partial_voyage" => pc # "error"

----------------------------------------------------------------------------
(* The threshold searches.                                                 *)

Searching == call.fn \in {"find_delay_threshold", "find_bunker_price_threshold"}

\* the values of np.arange(start, end + step, step), step > 0
SweepValues(c) == {x \in c.start..(c.end + c.step - 1) : (x - c.start) % c.step = 0}

\* the baseline record's recalculated profit before the sweep
BaseProfitOf(c) ==
    run_partial_voyage(c.base_row, F(c.vlsfo_price), F(c.mgo_price), F(c.speed_knots),
                       F(c.extra_days))["profit"]

\* the pool's recalculated profits at sweep value x
ProfitsAt(c, x) == Entries(c.results_df, RowResults(c, c.results_df, x))

\* entry k has the maximum profit and is the first in pool order to have it
MaxFirst(ps, k) ==
    /\ \A j \in 1..Len(ps) : RLe(ps[j]["profit"], ps[k]["profit"])
    /\ \A j \in 1..(k - 1) : RLt(ps[j]["profit"], ps[k]["profit"])

\* entry k of the profits at x is the maximum and differs from the baseline in key
\* and, by more than 0.001, from the baseline profit
CrossingAt(c, x, k) ==
    LET ps == ProfitsAt(c, x)
    IN  /\ MaxFirst(ps, k)
        /\ <<ps[k]["vessel"], ps[k]["cargo"]>> # <<c.base_row["vessel"], c.base_row["cargo"]>>
        /\ RLt(<<1, 1000>>, RAbs(RSub(ps[k]["profit"], BaseProfitOf(c))))

Crossing(c, x) == \E k \in 1..Len(c.results_df) : CrossingAt(c, x, k)

(* C4: the searches scan the sweep values in ascending order and return    *)
(* (v, top_choice, profits at v) for the first sweep value whose first     *)
(* maximum-profit entry differs from the baseline in key and by more than  *)
(* 0.001 in profit from the baseline profit computed before the sweep; if  *)
(* there is none they return (None, None, None).                           *)
C4_FirstCrossing ==
    /\ Searching =>
           \A i \in 1..Len(visited) : visited[i] = call.start + (i - 1) * call.step
    /\ (Searching /\ pc = "done") =>
           IF \E x \in SweepValues(call) : Crossing(call, x)
           THEN \E x \in SweepValues(call) : \E k \in 1..Len(call.results_df) :
                    /\ CrossingAt(call, x, k)
                    /\ \A y \in SweepValues(call) : y < x => ~Crossing(call, y)
                    /\ result = <<Some(x), Some(ProfitsAt(call, x)[k]), Some(ProfitsAt(call, x))>>
           ELSE result = NoneTriple

\* a search that returned a threshold after sweep values that were no crossing
C4_Witness ==
    /\ Searching
    /\ pc = "done"
    /\ Len(visited) >= 3
    /\ result[1] = Some(visited[Len(visited)])

(* C5: find_delay_threshold with a pool of exactly the baseline record     *)
(* returns (None, None, None).                                             *)
C5_SingletonPool ==
    (pc = "done" /\ call.fn = "find_delay_threshold" /\ call.results_df = <<call.base_row>>)
        => result = NoneTriple

C5_Witness ==
    /\ pc = "done"
    /\ call.fn = "find_delay_threshold"
    /\ call.results_df = <<call.base_row>>
    /\ Len(visited) >= 3

\* the running call is the documented scenario
ScenarioCall == call = Args("find_bunker_price_threshold", Scenario)

(* C6: baseline A, pool [A, B], prices 500 and 650, 12 knots, no extra     *)
(* days, 0 to 200 percent in steps of 1: the search returns a threshold    *)
(* whose top choice is vessel B, and there B's profit exceeds A's.         *)
C6_Scenario ==
    ScenarioCall =>
        /\ pc # "error"
        /\ pc = "done" =>
               /\ result[1] # None
               /\ result[2][1]["vessel"] = "B"
               /\ RLt(result[3][1][1]["profit"], result[3][1][2]["profit"])

C6_Witness == ScenarioCall /\ pc = "done" /\ result[1] = Some(6)

(* C7: a search called with an empty pool fails fast or returns not-found  *)
(* before the sweep, and never reaches max() with an empty list.           *)
C7_EmptyPoolGuarded ==
    (Searching /\ call.results_df = <<>>) =>
        /\ visited = <<>>
        /\ ~(pc = "error" /\ result = ValueError)

(* C10: for start <= end and step > 0 every sweep value at which the pool  *)
(* is recalculated lies in [start, end], and a returned threshold is       *)
(* <= end.                                                                 *)
C10_SweepWithinRange ==
    (Searching /\ call.start <= call.end /\ call.step > 0) =>
        /\ \A i \in 1..Len(visited) : call.start <= visited[i] /\ visited[i] <= call.end
        /\ (pc = "done" /\ result[1] # None) => result[1][1] <= call.end

\* the place in profits of the first entry that no other entry exceeds
TopIndex(ps) == CHOOSE k \in 1..Len(ps) : MaxFirst(ps, k)

\* every entry of ps lies days * (daily_hire + opex_per_day) below its entry in ps0
LoweredBy(ps, ps0, days) ==
    \A i \in 1..Len(ps) :
        ps[i]["profit"] = RSub(ps0[i]["profit"], RMul(F(days), F(DailyHire + OpexPerDay)))

(* C11 in exact arithmetic: at every sweep value of find_delay_threshold   *)
(* each candidate's profit lies (daily_hire + opex_per_day) per extra day  *)
(* below its profit at the start value and the selected entry is the same  *)
(* pool entry as at the start value; a search that returned with the       *)
(* baseline record selected at the start value returned (None, None, None).*)
C11_ExactArithmetic ==
    (call.fn = "find_delay_threshold" /\ pc \in {"sweep", "done"} /\ profits # <<>>) =>
        /\ LoweredBy(profits, ProfitsAt(call, call.start),
                     visited[Len(visited)] - call.start)
        /\ TopIndex(profits) = TopIndex(ProfitsAt(call, call.start))
        /\ (pc = "done" /\ call.results_df[TopIndex(profits)] = call.base_row)
               => result = NoneTriple

\* a search over two different rows that ran to the end with the baseline selected
C11_ExactWitness ==
    /\ call.fn = "find_delay_threshold"
    /\ pc = "done"
    /\ Len(visited) >= 3
    /\ Len(profits) = MaxPool
    /\ profits[1]["profit"] # profits[MaxPool]["profit"]
    /\ call.results_df[TopIndex(profits)] = call.base_row
    /\ result = NoneTriple

----------------------------------------------------------------------------
(* The Streamlit page: one action per rerun of the script.                 *)

Put(d, k, x) == [j \in DOMAIN d \cup {k} |-> IF j = k THEN x ELSE d[j]]
Pop(d, k) == [j \in DOMAIN d \ {k} |-> d[j]]

\* results_df of the page
AppTable == <<RecA, RecB, RecD, RecE>>
VesselList == {AppTable[i]["vessel"] : i \in 1..Len(AppTable)}
CargoList == {AppTable[i]["cargo"] : i \in 1..Len(AppTable)}

\* widget values
UiVlsfoPrices == {500, 700}
UiMgoPrices == {650, 670}
UiSpeeds == {9, 12, 16}
UiExtraDays == {0, 5}

\* compute_adjusted_profit, lines 98-116
compute_adjusted_profit(row, vlsfo_new, mgo_new) ==
    LET orig_profit == F(Get(row, "profit", 0))
        vlsfo_orig == IF "vlsfo_price" \in DOMAIN row THEN F(row["vlsfo_price"]) ELSE vlsfo_new
        mgo_orig == IF "mgo_price" \in DOMAIN row THEN F(row["mgo_price"]) ELSE mgo_new
        total_vlsfo == F(Get(row, "total_vlsfo_mt", 0))
        total_mgo == F(Get(row, "total_mgo_mt", 0))
        days == IF Get(row, "days", 1) = 0 THEN One ELSE F(Get(row, "days", 1))
        delta == RAdd(RMul(RSub(vlsfo_new, vlsfo_orig), total_vlsfo),
                      RMul(RSub(mgo_new, mgo_orig), total_mgo))
        adj_profit == RSub(orig_profit, delta)
        adj_tce == IF RLt(Zero, days) THEN RDiv(adj_profit, days) ELSE Zero
    IN  [orig_profit |-> orig_profit, adj_profit |-> adj_profit,
         orig_tce |-> F(Get(row, "tce", 0)), adj_tce |-> adj_tce, days |-> days]

SetDefault(d, k, x) == IF k \in DOMAIN d THEN d ELSE Put(d, k, x)

\* lines 155-163: the keys of compute_adjusted_profit are filled in only when
\* run_partial_voyage's result has no adj_profit
Fallback(adjusted, row, vlsfo_price, mgo_price) ==
    IF "adj_profit" \notin DOMAIN adjusted
    THEN LET comp == compute_adjusted_profit(row, vlsfo_price, mgo_price)
         IN  SetDefault(SetDefault(SetDefault(SetDefault(SetDefault(SetDefault(SetDefault(
                 adjusted, "adj_profit", comp["adj_profit"]),
                 "adj_tce", comp["adj_tce"]),
                 "orig_profit", comp["orig_profit"]),
                 "orig_tce", comp["orig_tce"]),
                 "profit", comp["adj_profit"]),
                 "tce", comp["adj_tce"]),
                 "days", comp["days"])
    ELSE adjusted

\* the rule of lines 184-189 on given profits
Rule(adj_profit, orig_profit) ==
    IF RLe(Zero, adj_profit) THEN "ASSIGN"
    ELSE IF RLt(RMul(<<-1, 20>>, RMax(One, orig_profit)), adj_profit) THEN "HEDGE"
    ELSE "DECLINE"

\* lines 182-189
Recommendation(adjusted) ==
    Rule(Get(adjusted, "adj_profit", Zero), Get(adjusted, "orig_profit", One))

\* lines 119-131: the submitted flag and the signature of the inputs
AfterSignature(ss, sig, button) ==
    LET s1 == IF "submitted" \in DOMAIN ss THEN ss ELSE Put(ss, "submitted", FALSE)
        s2 == IF button THEN Put(s1, "submitted", TRUE) ELSE s1
    IN  IF "last_sig" \notin DOMAIN s2 \/ s2["last_sig"] # sig
        THEN Pop(Pop(Put(s2, "last_sig", sig), "adjusted"), "selected_row")
        ELSE s2

\* rows of the table that match the selected vessel and cargo
Matches(vessel, cargo) ==
    {i \in 1..Len(AppTable) : AppTable[i]["vessel"] = vessel /\ AppTable[i]["cargo"] = cargo}

\* lines 145-189 with the selected row in the session
Show(ss, vlsfo_price, mgo_price, speed_knots, extra_days) ==
    IF "adjusted" \in DOMAIN ss
    THEN /\ session' = ss
         /\ pc' = "page"
         /\ result' = Recommendation(ss["adjusted"])
    ELSE LET adjusted == run_partial_voyage(ss["selected_row"], F(vlsfo_price), F(mgo_price),
                                            F(speed_knots), F(extra_days))
         IN  IF Raised(adjusted)
             THEN /\ session' = ss
                  /\ pc' = "error"
                  /\ result' = adjusted
             ELSE /\ session' = Put(ss, "adjusted",
                                    Fallback(adjusted, ss["selected_row"], F(vlsfo_price),
                                             F(mgo_price)))
                  /\ pc' = "page"
                  /\ result' = Recommendation(session'["adjusted"])

\* lines 133-142: the selected row is looked up unless the session holds it
Page(ss, vessel, cargo, vlsfo_price, mgo_price, speed_knots, extra_days) ==
    IF ~ss["submitted"]
    THEN /\ session' = ss
         /\ pc' = "page"
         /\ result' = "nothing"
    ELSE IF "selected_row" \in DOMAIN ss
    THEN Show(ss, vlsfo_price, mgo_price, speed_knots, extra_days)
    ELSE IF Matches(vessel, cargo) = {}
    THEN \* st.error and st.stop
         /\ session' = ss
         /\ pc' = "page"
         /\ result' = "no match"
    ELSE Show(Put(ss, "selected_row",
                  AppTable[CHOOSE i \in Matches(vessel, cargo) :
                               \A j \in Matches(vessel, cargo) : i <= j]),
              vlsfo_price, mgo_price, speed_knots, extra_days)

Rerun ==
    /\ pc \in {"idle", "page", "error"}
    /\ call.fn \in {"none", "app"}
    /\ \E vessel \in VesselList, cargo \in CargoList, vlsfo_price \in UiVlsfoPrices,
          mgo_price \in UiMgoPrices, speed_knots \in UiSpeeds, extra_days \in UiExtraDays,
          button \in BOOLEAN :
         /\ call' = [fn |-> "app", vessel |-> vessel, cargo |-> cargo,
                     vlsfo_price |-> vlsfo_price, mgo_price |-> mgo_price,
                     speed_knots |-> speed_knots, extra_days |-> extra_days,
                     button |-> button]
         /\ Page(AfterSignature(Put(session, "mgo_price", mgo_price),
                                <<vessel, cargo, vlsfo_price, mgo_price, speed_knots, extra_days>>,
                                button),
                 vessel, cargo, vlsfo_price, mgo_price, speed_knots, extra_days)
    /\ UNCHANGED <<base_profit, v, profits, visited>>

SpecApp == Init /\ [][Rerun]_vars

Recommended == call.fn = "app" /\ pc = "page" /\ result \in {"ASSIGN", "HEDGE", "DECLINE"}

(* C9: the recommendation shown for the selected record is ASSIGN when     *)
(* adj_profit >= 0, HEDGE when -0.05 * max(1.0, orig_profit) < adj_profit  *)
(* < 0 and DECLINE otherwise, orig_profit being the selected record's      *)
(* baseline profit.                                                        *)
C9_Recommendation ==
    Recommended =>
        LET adj_profit == session["adjusted"]["adj_profit"]
            orig_profit == F(session["selected_row"]["profit"])
        IN  result = IF RLe(Zero, adj_profit) THEN "ASSIGN"
                     ELSE IF RLt(RMul(<<-1, 20>>, RMax(One, orig_profit)), adj_profit)
                     THEN "HEDGE"
                     ELSE "DECLINE"

----------------------------------------------------------------------------
(* Python floats as IEEE 754 binary64 values.                              *)
(*                                                                         *)
(* A float is <<s, m, e>> and stands for s * m * 2^e, where s is 1 or -1   *)
(* and m is a natural number held as a sequence of limbs, least            *)
(* significant first; m is odd, or the float is DZero. Every operation     *)
(* computes its exact result and rounds it once to MantissaBits bits, to   *)
(* nearest with ties to even. The exponent range is not modelled: the      *)
(* values of the voyages are far from overflow and from the subnormals.    *)

\* bits of the significand of a binary64 value
MantissaBits == 53
\* bits of one limb; the product of two limbs stays below 2^31
LimbBits == 15
LimbBase == 2^LimbBits

Min(a, b) == IF a < b THEN a ELSE b
Max(a, b) == IF a < b THEN b ELSE a

Hd(a) == IF a = <<>> THEN 0 ELSE a[1]
Tl(a) == IF a = <<>> THEN <<>> ELSE Tail(a)

RECURSIVE BTrim(_)
BTrim(a) ==
    IF a = <<>> THEN a
    ELSE IF a[Len(a)] = 0 THEN BTrim(SubSeq(a, 1, Len(a) - 1)) ELSE a

RECURSIVE BFromInt(_)
BFromInt(n) == IF n = 0 THEN <<>> ELSE <<n % LimbBase>> \o BFromInt(n \div LimbBase)

\* a + b + c for a carry c
RECURSIVE BAddC(_, _, _)
BAddC(a, b, c) ==
    IF a = <<>> /\ b = <<>> THEN (IF c = 0 THEN <<>> ELSE <<c>>)
    ELSE <<(Hd(a) + Hd(b) + c) % LimbBase>>
             \o BAddC(Tl(a), Tl(b), (Hd(a) + Hd(b) + c) \div LimbBase)

BAdd(a, b) == BTrim(BAddC(a, b, 0))

\* a - b - c for a borrow c, where a >= b + c
RECURSIVE BSubC(_, _, _)
BSubC(a, b, c) ==
    IF a = <<>> THEN <<>>
    ELSE <<(a[1] - Hd(b) - c + LimbBase) % LimbBase>>
             \o BSubC(Tail(a), Tl(b), IF a[1] - Hd(b) - c < 0 THEN 1 ELSE 0)

BSub(a, b) == BTrim(BSubC(a, b, 0))

\* -1, 0 or 1 as a < b, a = b or a > b, comparing from limb i downwards
RECURSIVE BCmpAt(_, _, _)
BCmpAt(a, b, i) ==
    IF i = 0 THEN 0
    ELSE IF a[i] < b[i] THEN -1
    ELSE IF a[i] > b[i] THEN 1
    ELSE BCmpAt(a, b, i - 1)

BCmp(a, b) ==
    IF Len(a) < Len(b) THEN -1
    ELSE IF Len(a) > Len(b) THEN 1
    ELSE BCmpAt(a, b, Len(a))

\* a * d + c for one limb d and a carry c
RECURSIVE BMulLimb(_, _, _)
BMulLimb(a, d, c) ==
    IF a = <<>> THEN (IF c = 0 THEN <<>> ELSE <<c>>)
    ELSE <<(a[1] * d + c) % LimbBase>> \o BMulLimb(Tail(a), d, (a[1] * d + c) \div LimbBase)

RECURSIVE BMul(_, _)
BMul(a, b) ==
    IF a = <<>> \/ b = <<>> THEN <<>>
    ELSE BTrim(BAddC(BMulLimb(b, a[1], 0), <<0>> \o BMul(Tail(a), b), 0))

RECURSIVE Zeros(_)
Zeros(n) == IF n = 0 THEN <<>> ELSE <<0>> \o Zeros(n - 1)

\* a * 2^k
BShl(a, k) ==
    IF a = <<>> THEN <<>>
    ELSE Zeros(k \div LimbBits) \o BMulLimb(a, 2^(k % LimbBits), 0)

RECURSIVE ShrBits(_, _)
ShrBits(a, r) ==
    IF a = <<>> THEN <<>>
    ELSE <<(a[1] \div 2^r) + (Hd(Tail(a)) % 2^r) * 2^(LimbBits - r)>> \o ShrBits(Tail(a), r)

\* a \div 2^k
BShr(a, k) ==
    IF k \div LimbBits >= Len(a) THEN <<>>
    ELSE BTrim(ShrBits(SubSeq(a, k \div LimbBits + 1, Len(a)), k % LimbBits))

\* bit i of a, bit 0 being the lowest
BBit(a, i) ==
    IF i \div LimbBits >= Len(a) THEN 0
    ELSE (a[i \div LimbBits + 1] \div 2^(i % LimbBits)) % 2

\* the k lowest bits of a are all zero
BLowZero(a, k) ==
    /\ \A j \in 1..Min(k \div LimbBits, Len(a)) : a[j] = 0
    /\ k \div LimbBits < Len(a) => a[k \div LimbBits + 1] % 2^(k % LimbBits) = 0

RECURSIVE IntBitLen(_)
IntBitLen(n) == IF n = 0 THEN 0 ELSE 1 + IntBitLen(n \div 2)

BBitLen(a) == IF a = <<>> THEN 0 ELSE LimbBits * (Len(a) - 1) + IntBitLen(a[Len(a)])

RECURSIVE IntTz(_)
IntTz(n) == IF n % 2 = 1 THEN 0 ELSE 1 + IntTz(n \div 2)

\* the number of trailing zero bits of a > 0
RECURSIVE BTz(_)
BTz(a) == IF a[1] = 0 THEN LimbBits + BTz(Tail(a)) ELSE IntTz(a[1])

\* the largest g with g * d <= r, where r < d * LimbBase, found bit by bit
RECURSIVE Digit(_, _, _, _)
Digit(r, d, g, bit) ==
    IF bit < 0 THEN g
    ELSE IF BCmp(BMulLimb(d, g + 2^bit, 0), r) <= 0
    THEN Digit(r, d, g + 2^bit, bit - 1)
    ELSE Digit(r, d, g, bit - 1)

\* <<n \div d, n % d>> by long division over the limbs of n, from limb i downwards,
\* with quotient q and remainder r so far
RECURSIVE DivLimbs(_, _, _, _, _)
RECURSIVE DivDigit(_, _, _, _, _)
RECURSIVE DivNext(_, _, _, _, _, _)
DivLimbs(n, d, i, q, r) ==
    IF i = 0 THEN <<BTrim(q), r>>
    ELSE DivDigit(n, d, i, q, BTrim(<<n[i]>> \o r))
DivDigit(n, d, i, q, r) == DivNext(n, d, i, q, r, Digit(r, d, 0, LimbBits - 1))
DivNext(n, d, i, q, r, g) == DivLimbs(n, d, i - 1, <<g>> \o q, BSub(r, BMulLimb(d, g, 0)))

BDivMod(n, d) == DivLimbs(n, d, Len(n), <<>>, <<>>)

DZero == <<1, <<>>, 0>>

DCanonT(s, m, e, t) == <<s, BShr(m, t), e + t>>
DCanon(s, m, e) == IF m = <<>> THEN DZero ELSE DCanonT(s, m, e, BTz(m))

\* round to nearest, ties to even: m has n > MantissaBits bits, sticky says that
\* the exact value lies above s * m * 2^e
DRoundN(s, m, e, sticky, n) ==
    IF n <= MantissaBits THEN DCanon(s, m, e)
    ELSE DCanon(s,
                IF /\ BBit(m, n - MantissaBits - 1) = 1
                   /\ \/ sticky
                      \/ ~BLowZero(m, n - MantissaBits - 1)
                      \/ BBit(m, n - MantissaBits) = 1
                THEN BAddC(BShr(m, n - MantissaBits), <<>>, 1)
                ELSE BShr(m, n - MantissaBits),
                e + n - MantissaBits)

DRound(s, m, e, sticky) == DRoundN(s, m, e, sticky, BBitLen(m))

\* float(n) of an int n
D(n) == DCanon(IF n < 0 THEN -1 ELSE 1, BFromInt(IF n < 0 THEN -n ELSE n), 0)

DOne == D(1)

DNeg(a) == IF a = DZero THEN a ELSE <<-a[1], a[2], a[3]>>
DAbs(a) == <<1, a[2], a[3]>>

\* s * x + t * y for magnitudes x and y on the common exponent e
DAddAligned(s, x, t, y, e) ==
    IF s = t THEN DRound(s, BAdd(x, y), e, FALSE)
    ELSE IF BCmp(x, y) >= 0 THEN DRound(s, BSub(x, y), e, FALSE)
    ELSE DRound(t, BSub(y, x), e, FALSE)

DAdd(a, b) ==
    DAddAligned(a[1], BShl(a[2], a[3] - Min(a[3], b[3])),
                b[1], BShl(b[2], b[3] - Min(a[3], b[3])), Min(a[3], b[3]))

DSub(a, b) == DAdd(a, DNeg(b))

DMul(a, b) == DRound(a[1] * b[1], BMul(a[2], b[2]), a[3] + b[3], FALSE)

\* the quotient of the magnitudes carries at least two bits more than MantissaBits
DDivShift(a, b) == Max(0, MantissaBits + 2 + BBitLen(b[2]) - BBitLen(a[2]))
DDivRound(s, qr, e) == DRound(s, qr[1], e, qr[2] # <<>>)
DDivBy(a, b, k) == DDivRound(a[1] * b[1], BDivMod(BShl(a[2], k), b[2]), a[3] - b[3] - k)
DDiv(a, b) == IF a = DZero THEN DZero ELSE DDivBy(a, b, DDivShift(a, b))

\* x ** 3, correctly rounded
DCube(a) == DRound(a[1], BMul(a[2], BMul(a[2], a[2])), 3 * a[3], FALSE)

IsNegative(a) == a[1] = -1 /\ a[2] # <<>>
DLt(a, b) == IsNegative(DSub(a, b))
DLe(a, b) == ~DLt(b, a)
DMax(a, b) == IF DLt(a, b) THEN b ELSE a

\* the float of the decimal literal q[1] / q[2]
DLit(q) == DDiv(D(q[1]), D(q[2]))

----------------------------------------------------------------------------
(* run_partial_voyage and find_delay_threshold in binary64 arithmetic.     *)
(* Numbers of the rows and of the arguments are decimal literals <<n, d>>. *)

\* lines 14-18 and the row's own prices of lines 31-32, as floats
Base64(base_row, vlsfo_price, mgo_price) ==
    [days |-> DLit(Get(base_row, "days", <<1, 1>>)),
     profit |-> DLit(Get(base_row, "profit", <<0, 1>>)),
     vlsfo_mt |-> DLit(Get(base_row, "total_vlsfo_mt", <<0, 1>>)),
     mgo_mt |-> DLit(Get(base_row, "total_mgo_mt", <<0, 1>>)),
     speed |-> DLit(Get(base_row, "speed_knots", <<12, 1>>)),
     vlsfo_price |-> IF "vlsfo_price" \in DOMAIN base_row
                     THEN DLit(base_row["vlsfo_price"]) ELSE vlsfo_price,
     mgo_price |-> IF "mgo_price" \in DOMAIN base_row
                   THEN DLit(base_row["mgo_price"]) ELSE mgo_price]

\* base_speed / max(speed_knots, 1.0), line 20
SpeedFactor64(base_speed, speed_knots) == DDiv(base_speed, DMax(speed_knots, DOne))

\* (speed_knots / base_speed) ** 3, line 24
FuelFactor64(speed_knots, base_speed) == DCube(DDiv(speed_knots, base_speed))

\* line 28
BunkerCost64(vlsfo_mt, vlsfo_price, mgo_mt, mgo_price) ==
    DAdd(DMul(vlsfo_mt, vlsfo_price), DMul(mgo_mt, mgo_price))

\* line 29
TimeCost64(total_days) == DMul(total_days, D(DailyHire + OpexPerDay))

\* lines 31-34
Revenue64(b) ==
    DAdd(DAdd(b.profit, BunkerCost64(b.vlsfo_mt, b.vlsfo_price, b.mgo_mt, b.mgo_price)),
         TimeCost64(b.days))

\* line 37
Tce64(profit, total_days) ==
    IF DLt(DZero, total_days) THEN DDiv(profit, total_days) ELSE DZero

\* lines 39-46
Return64(profit, tce, total_days, vlsfo_mt, mgo_mt) ==
    [profit |-> profit, adj_profit |-> profit, tce |-> tce, adj_tce |-> tce,
     days |-> total_days, fuel |-> [vlsfo_mt |-> vlsfo_mt, mgo_mt |-> mgo_mt]]

\* lines 36-37
Profit64(profit, total_days, vlsfo_mt, mgo_mt) ==
    Return64(profit, Tce64(profit, total_days), total_days, vlsfo_mt, mgo_mt)

\* lines 28-36
Costs64(b, vlsfo_price, mgo_price, total_days, vlsfo_mt, mgo_mt) ==
    Profit64(DSub(DSub(Revenue64(b), BunkerCost64(vlsfo_mt, vlsfo_price, mgo_mt, mgo_price)),
                  TimeCost64(total_days)),
             total_days, vlsfo_mt, mgo_mt)

\* lines 25-26
Fuel64(b, vlsfo_price, mgo_price, total_days, fuel_factor) ==
    Costs64(b, vlsfo_price, mgo_price, total_days,
            DMul(b.vlsfo_mt, fuel_factor), DMul(b.mgo_mt, fuel_factor))

\* lines 20-24; the division of line 24 raises when base_speed is 0
Voyage64(b, vlsfo_price, mgo_price, speed_knots, extra_days) ==
    IF b.speed = DZero THEN ZeroDivisionError
    ELSE Fuel64(b, vlsfo_price, mgo_price,
                DAdd(DMul(b.days, SpeedFactor64(b.speed, speed_knots)), extra_days),
                FuelFactor64(speed_knots, b.speed))

\* run_partial_voyage on floats, with the default daily_hire and opex_per_day
run_partial_voyage64(base_row, vlsfo_price, mgo_price, speed_knots, extra_days) ==
    Voyage64(Base64(base_row, vlsfo_price, mgo_price), vlsfo_price, mgo_price,
             speed_knots, extra_days)

\* rows of equal baseline profit and different duration
Row64A == [vessel |-> "A", cargo |-> "X", days |-> <<10, 1>>, profit |-> <<100000, 1>>,
           total_vlsfo_mt |-> <<500, 1>>, total_mgo_mt |-> <<50, 1>>,
           vlsfo_price |-> <<500, 1>>, mgo_price |-> <<650, 1>>, speed_knots |-> <<12, 1>>]
Row64B == [vessel |-> "B", cargo |-> "Y", days |-> <<72, 10>>, profit |-> <<100000, 1>>,
           total_vlsfo_mt |-> <<100, 1>>, total_mgo_mt |-> <<10, 1>>,
           vlsfo_price |-> <<500, 1>>, mgo_price |-> <<650, 1>>, speed_knots |-> <<12, 1>>]
\* a row of lower profit
Row64C == [vessel |-> "A", cargo |-> "Y", days |-> <<154, 10>>, profit |-> <<900001, 10>>,
           total_vlsfo_mt |-> <<200, 1>>, total_mgo_mt |-> <<20, 1>>,
           vlsfo_price |-> <<500, 1>>, mgo_price |-> <<650, 1>>, speed_knots |-> <<12, 1>>]

\* a row whose baseline speed is 0
Row64D == [vessel |-> "B", cargo |-> "X", days |-> <<10, 1>>, profit |-> <<50000, 1>>,
           total_vlsfo_mt |-> <<100, 1>>, total_mgo_mt |-> <<10, 1>>,
           vlsfo_price |-> <<500, 1>>, mgo_price |-> <<650, 1>>, speed_knots |-> <<0, 1>>]

Rows64 == {Row64A, Row64B, Row64C, Row64D}
Baselines64 == {Row64A, Row64B, Row64D}
DataFrames64 == SeqsUpTo(Rows64, MaxPool)
Speeds64 == {<<6, 1>>, <<12, 1>>}
\* sweeps that start at no delay
Sweeps64 == {sw \in Sweeps : sw[1] = 0}

Delay64Inputs ==
    {<<b, df, <<500, 1>>, <<650, 1>>, s, <<sw[1], 1>>, sw>> :
        b \in Baselines64, df \in DataFrames64, s \in Speeds64, sw \in Sweeps64}

\* the place in profits of the entry max(profits, key=lambda x: x["profit"]) selects,
\* line 62: the first entry that no other entry exceeds
TopIndex64(ps) ==
    CHOOSE k \in 1..Len(ps) :
        /\ \A j \in 1..Len(ps) : DLe(ps[j]["profit"], ps[k]["profit"])
        /\ \A j \in 1..(k - 1) : ps[j]["profit"] # ps[k]["profit"]

TopChoice64(ps) == ps[TopIndex64(ps)]

\* the return condition of line 63
Flipped64(top, current_vessel, current_cargo, bp) ==
    /\ (top["vessel"] # current_vessel \/ top["cargo"] # current_cargo)
    /\ DLt(DLit(Epsilon), DAbs(DSub(top["profit"], bp)))

\* line 60 for a pool row at delay_days x
RowResult64(c, row, x) ==
    run_partial_voyage64(row, DLit(c.vlsfo_price), DLit(c.mgo_price), DLit(c.speed_knots), D(x))

RECURSIVE RowResults64(_, _, _)
RowResults64(c, df, x) ==
    IF df = <<>> THEN <<>>
    ELSE <<RowResult64(c, Head(df), x)>> \o RowResults64(c, Tail(df), x)

\* lines 51-55 on floats
CallDelay64 ==
    /\ pc = "idle"
    /\ \E in \in Delay64Inputs :
         Enter(Args("find_delay_threshold", in),
               run_partial_voyage64(in[1], DLit(in[3]), DLit(in[4]), DLit(in[5]), DLit(in[6])))

\* lines 62-64 on floats
Select64(ps, top_choice) ==
    /\ profits' = ps
    /\ IF Flipped64(top_choice, call.base_row["vessel"], call.base_row["cargo"], base_profit)
       THEN /\ pc' = "done"
            /\ result' = <<Some(v), Some(top_choice), Some(ps)>>
            /\ UNCHANGED v
       ELSE /\ pc' = "sweep"
            /\ v' = v + call.step
            /\ UNCHANGED result

\* lines 58-64 on floats
LoopBody64(df, rs) ==
    IF \E i \in 1..Len(rs) : Raised(rs[i])
    THEN /\ pc' = "error"
         /\ result' = ZeroDivisionError
         /\ UNCHANGED <<v, profits>>
    ELSE IF Len(df) = 0
    THEN /\ pc' = "error"
         /\ result' = ValueError
         /\ profits' = <<>>
         /\ UNCHANGED v
    ELSE Select64(Entries(df, rs), TopChoice64(Entries(df, rs)))

SweepStep64 ==
    /\ pc = "sweep"
    /\ v < ArangeStop(call.end, call.step)
    /\ visited' = Append(visited, v)
    /\ LoopBody64(call.results_df, RowResults64(call, call.results_df, v))
    /\ UNCHANGED <<call, base_profit, session>>

Next64 == CallDelay64 \/ SweepStep64 \/ SweepExhausted

Spec64 == Init /\ [][Next64]_vars

\* the pool's profits at delay_days x, on floats
ProfitsAt64(c, x) == Entries(c.results_df, RowResults64(c, c.results_df, x))

\* the selected entry is entry k0 of the pool, and a search that returned with the
\* baseline record at k0 returned (None, None, None)
SameTop64(c, ps, k0) ==
    /\ TopIndex64(ps) = k0
    /\ (pc = "done" /\ c.results_df[k0] = c.base_row) => result = NoneTriple

(* C11: in find_delay_threshold the maximum-profit candidate is the same   *)
(* pool entry at every sweep value, and if the baseline record is in the   *)
(* pool and is the selected maximum-profit entry at the start value, the   *)
(* search returns (None, None, None), for every end and step.              *)
C11_ConstantTopChoice ==
    (call.fn = "find_delay_threshold" /\ pc \in {"sweep", "done"} /\ profits # <<>>) =>
        SameTop64(call, profits, TopIndex64(ProfitsAt64(call, call.start)))

====
